---- MODULE Spec2Model ----
(***************************************************************************)
(* Window-lifecycle manager, exit-state cell and engine tick of the        *)
(* neuron-engine crate.                                                    *)
(*                                                                         *)
(*   neuron-engine/src/os/window.rs    WindowManager, WindowSets           *)
(*   neuron-engine/src/lib.rs          Engine, ExitState, ExitManager      *)
(*   neuron-engine/src/os/x11/mod.rs   X11Platform (pump, window_map)      *)
(*   neuron-engine/src/os/windows/mod.rs  WindowsPlatform (pump, wndproc)  *)
(***************************************************************************)
EXTENDS Integers, FiniteSets, Sequences

(***************************************************************************)
(* Bounds of the model.                                                    *)
(***************************************************************************)
\* number of create_window calls explored (values of window_id_counter)
MaxIds == 2
\* outside strong references (clones of the Arc) held per window
MaxRefs == 1
\* native events pending when a tick's pump starts
MaxBatch == 1
\* calls on the ExitManager recorded in exit_trace
MaxTrace == 3

\* bits of window_id_counter in the model; the AtomicU32 of the code has 32
CounterBits == 2

\* ids the manager can hand out within the bound
WindowIds == 0 .. (MaxIds - 1)
\* ids passed as arguments: issued, not yet issued, or consumed by a failed create
IdArgs == WindowIds

(***************************************************************************)
(* ExitState (lib.rs).  ExitError carries an anyhow::Error payload; two    *)
(* distinct payloads are enough to tell a kept payload from a lost one.    *)
(***************************************************************************)
ExitErrors == {"ExitError(e1)", "ExitError(e2)"}
ExitStates == {"Running", "ExitSuccess", "ExitErrorGeneric"} \cup ExitErrors

VARIABLES
    platform,           \* which backend new_platform() built: "x11" | "windows"
    window_id_counter,  \* WindowManager.window_id_counter
    windows,            \* keys of WindowSets.windows (id -> Arc<dyn Window>)
    active_windows,     \* WindowSets.active_windows
    dying_windows,      \* WindowSets.dying_windows
    outside,            \* per window object: strong references held outside the manager
    issued,             \* ids for which the application holds a Weak from create_window
    window_map,         \* X11Platform.window_map: native window -> WindowId
    exit_state,         \* ExitManager.exit_state
    panicked,           \* the process hit todo!() in generic_window_proc
    last,               \* the last call on the manager or the engine: operation,
                        \* argument, results, window entries it removed
    exit_trace,         \* calls made directly on the ExitManager, with their results
    pending,            \* native events still queued while a pump loop runs
    pc,                 \* where a tick followed statement by statement stands:
                        \* "idle" | "pump" | "update" | "read"
    borrow,             \* borrow flags of the two RefCells: window_sets, window_map
    call                \* the manager call followed statement by statement:
                        \* the statement it stands at, its id, who called it

vars == <<platform, window_id_counter, windows, active_windows, dying_windows,
          outside, issued, window_map, exit_state, panicked, last, exit_trace,
          pending, pc, borrow, call>>

(***************************************************************************)
(* State the operations work on, as one record, so that an operation that  *)
(* calls other operations (the pump, the reconciliation pass, the tick) is *)
(* the composition of their effects.  drops collects, for every window     *)
(* entry the manager removes, what the registry looked like at that point; *)
(* pumped collects the ids a pump passes to begin_closing_window.          *)
(***************************************************************************)
Cur ==
    [windows |-> windows, active_windows |-> active_windows,
     dying_windows |-> dying_windows, window_map |-> window_map,
     exit_state |-> exit_state, panicked |-> panicked, drops |-> {},
     pumped |-> {}]

\* The native handle (X11 Window XID / HWND) of the window created for id.
\* Neither backend ever destroys a native window, so handles are not recycled.
NativeOf(id) == id + 1

NativeHandles == {NativeOf(id) : id \in IdArgs}

\* variant that counts the manager's own reference only
StrongCount_of_manager_only(m, id) == IF id \in m.windows THEN 1 ELSE 0

\* Arc::strong_count of the window object created for id
StrongCount(m, id) == (IF id \in m.windows THEN 1 ELSE 0) + outside[id]

\* X11Platform::notify_window_destroy
notify_window_destroy(wm, native) == {p \in wm : p[1] # native}

\* HashMap::insert / contains_key / get on window_map, a set of <<native, id>> entries
map_insert(wm, native, id) == {p \in wm : p[1] # native} \cup {<<native, id>>}

map_contains(wm, native) == \E p \in wm : p[1] = native

map_get(wm, native) == (CHOOSE p \in wm : p[1] = native)[2]

\* The native windows that exist while the process runs: XCreateWindow /
\* CreateWindowExW made one for every window create_window returned, and
\* no Drop and no other path calls XDestroyWindow / DestroyWindow.
LiveNativeWindows == {NativeOf(id) : id \in issued}

\* variant whose destructor does not tell the platform
drop_window_without_notify(m, id) == m

\* The last strong reference to the window object of id goes away:
\* X11Window::drop runs; WindowsWindow has no Drop.
drop_window(m, id) ==
    IF platform = "x11"
    THEN [m EXCEPT !.window_map = notify_window_destroy(@, NativeOf(id))]
    ELSE m

\* the manager gave up its Arc for id: the window object goes with it unless
\* somebody outside still holds one
after_entry_removed(m, id) == IF outside[id] = 0 THEN drop_window(m, id) ELSE m

(***************************************************************************)
(* WindowManager (os/window.rs)                                            *)
(***************************************************************************)
is_window_active(m, id) == id \in m.active_windows

is_window_dying(m, id) == id \in m.dying_windows

\* variant that answers from the active set alone
is_window_alive_active_only(m, id) == id \in m.active_windows

is_window_alive(m, id) == id \in m.active_windows \/ id \in m.dying_windows

\* get_window: Some(clone of the Arc) exactly when this is TRUE
get_window(m, id) == id \in m.active_windows /\ id \in m.windows

\* variant that reads the counter without advancing it
fetch_add_without_advance(counter) == [id |-> counter, counter |-> counter]

\* window_id_counter.fetch_add(1, SeqCst): the value read and the value
\* left; fetch_add wraps around on overflow
fetch_add(counter) == [id |-> counter, counter |-> (counter + 1) % (2 ^ CounterBits)]

\* Platform::create_window succeeded: the X11 backend registers the native
\* window under the id, the Windows backend keeps no table
platform_create_window(m, id) ==
    IF platform = "x11"
    THEN [m EXCEPT !.window_map = map_insert(@, NativeOf(id), id)]
    ELSE m

\* the inserts of create_window after a successful Platform::create_window
register_window(m, id) ==
    [m EXCEPT !.active_windows = @ \cup {id}, !.windows = @ \cup {id}]

\* variant that inserts the id before it knows whether the platform succeeded
create_window_registers_first(m, id, ok) ==
    IF ok THEN register_window(platform_create_window(m, id), id)
    ELSE register_window(m, id)

\* create_window from the id on; ok is whether Platform::create_window
\* succeeded, the ? returns before anything is inserted when it did not
create_window(m, id, ok) ==
    IF ok THEN register_window(platform_create_window(m, id), id) ELSE m

\* variant that inserts into dying without removing from active
begin_closing_window_keeps_active(m, id) ==
    [m EXCEPT !.dying_windows = @ \cup {id}]

begin_closing_window(m, id) ==
    [m EXCEPT !.active_windows = @ \ {id},
              !.dying_windows = @ \cup {id}]

\* variant with the comparison off by one
has_outside_references_above_two(m, id) == StrongCount(m, id) > 2

\* variant that also refuses while a later id is dying and resident
has_outside_references_or_later_dying(m, id) ==
    StrongCount(m, id) > 1 \/ \E j \in m.dying_windows \cap m.windows : j > id

\* strong_count(&window) > 1 : somebody else still holds the window
has_outside_references(m, id) == StrongCount(m, id) > 1

\* dying_windows.remove(&id); windows.remove(&id): the manager's Arc is dropped
remove_window(m, id) ==
    after_entry_removed(
        [m EXCEPT !.dying_windows = @ \ {id},
                  !.windows = @ \ {id},
                  !.drops = @ \cup {[id |-> id,
                                     active |-> id \in m.active_windows,
                                     dying |-> id \in m.dying_windows,
                                     strong |-> StrongCount(m, id),
                                     pumped |-> id \in m.pumped]}],
        id)

\* variant without the test that the id is dying
try_finish_closing_window_of_any_id(m, id) ==
    IF id \in m.windows
    THEN IF has_outside_references(m, id)
         THEN [m |-> m, ret |-> FALSE]
         ELSE [m |-> remove_window(m, id), ret |-> TRUE]
    ELSE [m |-> m, ret |-> TRUE]

\* variant that, when it tears id down, empties the dying set
try_finish_closing_window_sweeps_dying(m, id) ==
    IF id \in m.dying_windows
    THEN IF id \in m.windows
         THEN IF has_outside_references(m, id)
              THEN [m |-> m, ret |-> FALSE]
              ELSE [m |-> [remove_window(m, id) EXCEPT !.dying_windows = {}],
                    ret |-> TRUE]
         ELSE [m |-> m, ret |-> TRUE]
    ELSE [m |-> m, ret |-> TRUE]

\* result: the state afterwards and the returned bool
try_finish_closing_window(m, id) ==
    IF id \in m.dying_windows
    THEN IF id \in m.windows
         THEN IF has_outside_references(m, id)
              THEN [m |-> m, ret |-> FALSE]
              ELSE [m |-> remove_window(m, id), ret |-> TRUE]
         ELSE [m |-> m, ret |-> TRUE]
    ELSE [m |-> m, ret |-> TRUE]

(***************************************************************************)
(* ExitManager (lib.rs)                                                    *)
(***************************************************************************)
\* the match of take_exit_state: a payload-free copy of the stored state
collapse(l) == IF l \in ExitErrors THEN "ExitErrorGeneric" ELSE l

\* std::mem::swap(&mut *l, &mut es); es
take_exit_state(l) ==
    LET es == collapse(l)
    IN  [stored |-> es, ret |-> l]

\* variant that answers true for the error states only
should_exit_on_error_only(l) == l \notin {"Running", "ExitSuccess"}

should_exit(l) == l # "Running"

\* variant that keeps a signal already stored
set_keeps_stored_signal(l, value) == IF l = "Running" THEN value ELSE l

set(l, value) == value

(***************************************************************************)
(* Native events.  An X11 event carries its type and window and, for a     *)
(* ClientMessage, the message type, the format and the first datum; on     *)
(* Windows "WM_QUIT" and "WM_DESTROY" are the messages of that name.       *)
(* "Other" is any event the pump has no case for.                          *)
(***************************************************************************)
\* the window manager's request to close window n
DeleteMessage(n) ==
    [type |-> "ClientMessage", window |-> n, message_type |-> "WM_PROTOCOLS",
     format |-> 32, data0 |-> "WM_DELETE_WINDOW"]

OtherX11Event ==
    [type |-> "Other", window |-> 0, message_type |-> "-", format |-> 0, data0 |-> "-"]

X11Events == {DeleteMessage(n) : n \in NativeHandles} \cup {OtherX11Event}

\* variant that does not look at the format of the message
is_delete_message_of_any_format(e) ==
    /\ e.type = "ClientMessage"
    /\ e.message_type = "WM_PROTOCOLS"
    /\ e.data0 = "WM_DELETE_WINDOW"

\* the conditions of the ClientMessage arm of X11Platform::process_events
is_delete_message(e) ==
    /\ e.type = "ClientMessage"
    /\ e.message_type = "WM_PROTOCOLS" /\ e.format = 32
    /\ e.data0 = "WM_DELETE_WINDOW"

WinEvents ==
    {[type |-> "WM_DESTROY", window |-> n] : n \in NativeHandles}
        \cup {[type |-> "WM_QUIT", window |-> 0], [type |-> "Other", window |-> 0]}

\* WindowManager::update, called by the tick and by the X11 pump; window.rs does
\* not define it, the design describes it as the reconciliation pass: one
\* teardown attempt per dying id
\* (n is the registry after one attempt, evaluated once)
RECURSIVE finish_all(_, _)
finish_all(m, ids) ==
    IF ids = {}
    THEN m
    ELSE LET id == CHOOSE i \in ids : TRUE
         IN  CHOOSE r \in {finish_all(n, ids \ {id}) :
                              n \in {try_finish_closing_window(m, id).m}} : TRUE

\* (d is m, evaluated once)
update(m) == CHOOSE r \in {finish_all(d, d.dying_windows) : d \in {m}} : TRUE

\* one iteration of the loop of X11Platform::process_events
x11_handle_event(m, e) ==
    IF is_delete_message(e) /\ map_contains(m.window_map, e.window)
    THEN [begin_closing_window(m, map_get(m.window_map, e.window))
             EXCEPT !.pumped = @ \cup {map_get(m.window_map, e.window)}]
    ELSE m

\* (n is the state after one iteration, evaluated once)
RECURSIVE x11_drain(_, _)
x11_drain(m, q) ==
    IF q = <<>>
    THEN m
    ELSE CHOOSE r \in {x11_drain(n, Tail(q)) :
                           n \in {x11_handle_event(m, Head(q))}} : TRUE

\* X11Platform::process_events
x11_process_events(m, q) == update(x11_drain(m, q))

\* generic_window_proc, reached through DispatchMessageW: WM_DESTROY for a
\* window whose user data is set (every window this platform created) is todo!()
generic_window_proc(m, e) ==
    IF e.type = "WM_DESTROY" /\ (e.window \in {NativeOf(id) : id \in issued})
    THEN [m EXCEPT !.panicked = TRUE]
    ELSE m

\* one iteration of the loop of WindowsPlatform::process_events
win_handle_message(m, e) ==
    generic_window_proc(
        IF e.type = "WM_QUIT" THEN [m EXCEPT !.exit_state = set(@, "ExitSuccess")] ELSE m,
        e)

RECURSIVE win_drain(_, _)
win_drain(m, q) ==
    IF q = <<>> \/ m.panicked
    THEN m
    ELSE CHOOSE r \in {win_drain(n, Tail(q)) :
                           n \in {win_handle_message(m, Head(q))}} : TRUE

\* WindowsPlatform::process_events
win_process_events(m, q) == win_drain(m, q)

platform_process_events(m, q) ==
    IF platform = "x11" THEN x11_process_events(m, q) ELSE win_process_events(m, q)

\* self.exit_manager.take_exit_state() as the last statement of the tick
read_exit_state(m) ==
    LET t == take_exit_state(m.exit_state)
    IN  [m |-> [m EXCEPT !.exit_state = t.stored], ret |-> t.ret]

\* variant of a tick without the reconciliation step
after_pump_without_update(m) ==
    IF m.panicked THEN [m |-> m, ret |-> "-"] ELSE read_exit_state(m)

\* what follows the pump in a tick; nothing follows it if the pump panicked
\* (p is m, evaluated once)
after_pump(m) ==
    CHOOSE r \in {IF p.panicked THEN [m |-> p, ret |-> "-"]
                  ELSE read_exit_state(update(p)) : p \in {m}} : TRUE

\* variant that reads the exit state before it pumps and reconciles
process_events_reads_exit_first(m, q) ==
    LET r == read_exit_state(m)
        p == platform_process_events(r.m, q)
    IN  IF p.panicked THEN [m |-> p, ret |-> "-"] ELSE [m |-> update(p), ret |-> r.ret]

\* Engine::process_events: pump, reconcile, read the exit state
process_events(m, q) == after_pump(platform_process_events(m, q))

(***************************************************************************)
(* The state machine.                                                      *)
(***************************************************************************)
\* what the registry said about id when the call was made
NoPre == [active |-> FALSE, dying |-> FALSE]

PreOf(id) == [active |-> id \in active_windows, dying |-> id \in dying_windows]

\* no manager call is being followed
NoFrame == [at |-> "idle", id |-> -1, caller |-> "-"]

NoCall ==
    [op |-> "new", id |-> -1, ok |-> TRUE, exit |-> "-", drops |-> {}, pre |-> NoPre]

Init ==
    /\ platform \in {"x11", "windows"}
    /\ window_id_counter = 0
    /\ windows = {}
    /\ active_windows = {}
    /\ dying_windows = {}
    /\ outside = [id \in IdArgs |-> 0]
    /\ issued = {}
    /\ window_map = {}
    /\ exit_state = "Running"
    /\ panicked = FALSE
    /\ last = NoCall
    /\ exit_trace = <<>>
    /\ pending = <<>>
    /\ pc = "idle"
    /\ borrow = [window_sets |-> 0, window_map |-> 0]
    /\ call = NoFrame

\* the variables an operation on the record m leaves behind
Becomes(m) ==
    /\ windows' = m.windows
    /\ active_windows' = m.active_windows
    /\ dying_windows' = m.dying_windows
    /\ window_map' = m.window_map
    /\ exit_state' = m.exit_state
    /\ panicked' = m.panicked

\* WindowManager::create_window; ok is whether Platform::create_window succeeded
CreateWindow(ok) ==
    /\ ~panicked
    /\ \E f \in {fetch_add(window_id_counter)} :
           /\ window_id_counter' = f.counter
           /\ \E m \in {create_window(Cur, f.id, ok)} : Becomes(m)
           /\ issued' = IF ok THEN issued \cup {f.id} ELSE issued
           /\ last' = [op |-> "create_window", id |-> f.id, ok |-> ok,
                       exit |-> "-", drops |-> {}, pre |-> PreOf(f.id)]
    /\ UNCHANGED <<platform, outside, exit_trace, pending, pc, borrow, call>>

\* WindowManager::begin_closing_window, called by application-level close logic
BeginClosingWindow(id) ==
    /\ ~panicked
    /\ \E m \in {begin_closing_window(Cur, id)} : Becomes(m)
    /\ last' = [op |-> "begin_closing_window", id |-> id, ok |-> TRUE,
                exit |-> "-", drops |-> {}, pre |-> PreOf(id)]
    /\ UNCHANGED <<platform, window_id_counter, outside, issued, exit_trace,
                   pending, pc, borrow, call>>

\* WindowManager::try_finish_closing_window
TryFinishClosingWindow(id) ==
    /\ ~panicked
    /\ \E r \in {try_finish_closing_window(Cur, id)} :
           /\ Becomes(r.m)
           /\ last' = [op |-> "try_finish_closing_window", id |-> id, ok |-> r.ret,
                       exit |-> "-", drops |-> r.m.drops, pre |-> PreOf(id)]
    /\ UNCHANGED <<platform, window_id_counter, outside, issued, exit_trace,
                   pending, pc, borrow, call>>

\* WindowManager::get_window; the caller keeps the returned Arc
GetWindow(id) ==
    /\ ~panicked
    /\ LET some == get_window(Cur, id)
       IN  /\ some => outside[id] < MaxRefs
           /\ outside' = IF some THEN [outside EXCEPT ![id] = @ + 1] ELSE outside
           /\ last' = [op |-> "get_window", id |-> id, ok |-> some,
                       exit |-> "-", drops |-> {}, pre |-> PreOf(id)]
    /\ UNCHANGED <<platform, window_id_counter, windows, active_windows,
                   dying_windows, issued, window_map, exit_state, panicked,
                   exit_trace, pending, pc, borrow, call>>

\* WindowManager::is_window_alive; it only borrows window_sets
IsWindowAlive(id) ==
    /\ ~panicked
    /\ last' = [op |-> "is_window_alive", id |-> id,
                ok |-> is_window_alive(Cur, id),
                exit |-> "-", drops |-> {}, pre |-> PreOf(id)]
    /\ UNCHANGED <<platform, window_id_counter, windows, active_windows,
                   dying_windows, outside, issued, window_map, exit_state,
                   panicked, exit_trace, pending, pc, borrow, call>>

\* Weak::upgrade on the handle create_window returned; the caller keeps the Arc
UpgradeWeak(id) ==
    /\ ~panicked
    /\ id \in issued
    /\ LET some == StrongCount(Cur, id) > 0
       IN  /\ some => outside[id] < MaxRefs
           /\ outside' = IF some THEN [outside EXCEPT ![id] = @ + 1] ELSE outside
    /\ UNCHANGED <<platform, window_id_counter, windows, active_windows,
                   dying_windows, issued, window_map, exit_state, panicked,
                   last, exit_trace, pending, pc, borrow, call>>

\* an outside holder drops its Arc
ReleaseRef(id) ==
    /\ ~panicked
    /\ outside[id] > 0
    /\ outside' = [outside EXCEPT ![id] = @ - 1]
    /\ window_map' = IF outside[id] = 1 /\ id \notin windows
                     THEN drop_window(Cur, id).window_map
                     ELSE window_map
    /\ UNCHANGED <<platform, window_id_counter, windows, active_windows,
                   dying_windows, issued, exit_state, panicked, last,
                   exit_trace, pending, pc, borrow, call>>

\* the events of this backend, and the batches that can be pending at a tick
PlatformEvents == IF platform = "x11" THEN X11Events ELSE WinEvents

Batches == UNION {[1 .. n -> PlatformEvents] : n \in 0 .. MaxBatch}

\* Engine::process_events, one tick; q is what is queued when the pump starts
Tick(q) ==
    /\ ~panicked
    /\ \E r \in {process_events(Cur, q)} :
           /\ Becomes(r.m)
           /\ last' = [op |-> "process_events", id |-> -1, ok |-> ~r.m.panicked,
                       exit |-> r.ret, drops |-> r.m.drops, pre |-> NoPre]
    /\ UNCHANGED <<platform, window_id_counter, outside, issued, exit_trace,
                   pending, pc, borrow, call>>

\* create_window is explored for the first MaxIds ids
Next ==
    \/ \E ok \in BOOLEAN : window_id_counter < MaxIds /\ CreateWindow(ok)
    \/ \E id \in IdArgs : BeginClosingWindow(id)
    \/ \E id \in IdArgs : TryFinishClosingWindow(id)
    \/ \E id \in IdArgs : GetWindow(id)
    \/ \E id \in IdArgs : IsWindowAlive(id)
    \/ \E id \in IdArgs : UpgradeWeak(id)
    \/ \E id \in IdArgs : ReleaseRef(id)
    \/ \E q \in Batches : Tick(q)

Spec == Init /\ [][Next]_vars

\* the caller keeps invoking Engine::process_events for as long as no tick
\* has panicked
SpecTicking == Spec /\ WF_vars(\E q \in Batches : Tick(q))

(***************************************************************************)
(* The ExitManager on its own: set, take_exit_state and should_exit called *)
(* in any order, every call and its result appended to exit_trace.         *)
(***************************************************************************)
RegistryVars ==
    <<platform, window_id_counter, windows, active_windows, dying_windows,
      outside, issued, window_map, panicked, last, pending, pc, borrow, call>>

ExitSet(value) ==
    /\ Len(exit_trace) < MaxTrace
    /\ exit_state' = set(exit_state, value)
    /\ exit_trace' = Append(exit_trace, [op |-> "set", val |-> value])
    /\ UNCHANGED RegistryVars

ExitTake ==
    /\ Len(exit_trace) < MaxTrace
    /\ LET t == take_exit_state(exit_state)
       IN  /\ exit_state' = t.stored
           /\ exit_trace' = Append(exit_trace, [op |-> "take_exit_state", val |-> t.ret])
    /\ UNCHANGED RegistryVars

ExitPeek ==
    /\ Len(exit_trace) < MaxTrace
    /\ exit_trace' = Append(exit_trace,
                            [op |-> "should_exit",
                             val |-> IF should_exit(exit_state) THEN "true" ELSE "false"])
    /\ UNCHANGED <<exit_state, RegistryVars>>

NextExit ==
    \/ \E value \in ExitStates : ExitSet(value)
    \/ ExitTake
    \/ ExitPeek

SpecExit == Init /\ [][NextExit]_vars

(***************************************************************************)
(* One tick followed statement by statement: the pump loop takes one       *)
(* pending event per iteration, returns when none is left, then the engine *)
(* reconciles and reads the exit state.  The manager is single-threaded    *)
(* (RefCell), so the application calls it only between ticks.  The queue   *)
(* is what is pending when the pump is called.                             *)
(***************************************************************************)
\* native events pending when a pump followed step by step starts
MaxQueue == 2

\* X11 events that meet all, or all but one, of the conditions of the
\* ClientMessage arm
X11Messages ==
    X11Events \cup
    UNION {{[DeleteMessage(n) EXCEPT !.type = "Other"],
            [DeleteMessage(n) EXCEPT !.message_type = "OtherAtom"],
            [DeleteMessage(n) EXCEPT !.format = 8],
            [DeleteMessage(n) EXCEPT !.data0 = "OtherAtom"]} : n \in NativeHandles}

PumpEvents == IF platform = "x11" THEN X11Messages ELSE WinEvents

Queues == UNION {[1 .. n -> PumpEvents] : n \in 0 .. MaxQueue}

\* the body of the pump loop of this backend
handle_event(m, e) ==
    IF platform = "x11" THEN x11_handle_event(m, e) ELSE win_handle_message(m, e)

\* what a step of a tick leaves alone
TickFrame ==
    <<platform, window_id_counter, outside, issued, exit_trace, borrow, call>>

\* Engine::process_events is called and enters Platform::process_events
PumpStart(q) ==
    /\ pc = "idle" /\ ~panicked
    /\ pending' = q
    /\ pc' = "pump"
    /\ last' = [op |-> "process_events", id |-> -1, ok |-> FALSE, exit |-> "-",
                drops |-> {}, pre |-> NoPre]
    /\ UNCHANGED <<windows, active_windows, dying_windows, window_map,
                   exit_state, panicked, TickFrame>>

\* variant whose loop ends at a quit message, leaving the rest undispatched
PumpStep_stops_at_quit ==
    /\ pc = "pump" /\ ~panicked
    /\ pending # <<>>
    /\ \E m \in {handle_event(Cur, Head(pending))} : Becomes(m)
    /\ pending' = IF Head(pending).type = "WM_QUIT" THEN <<>> ELSE Tail(pending)
    /\ UNCHANGED <<pc, last, TickFrame>>

\* one iteration of the pump loop: XPending > 0 / PeekMessageW > 0, the event
\* is removed and handled
PumpStep ==
    /\ pc = "pump" /\ ~panicked
    /\ pending # <<>>
    /\ \E m \in {handle_event(Cur, Head(pending))} : Becomes(m)
    /\ pending' = Tail(pending)
    /\ UNCHANGED <<pc, last, TickFrame>>

\* the loop condition fails on the empty queue and Platform::process_events
\* returns; the X11 one calls WindowManager::update first
PumpReturn ==
    /\ pc = "pump" /\ ~panicked
    /\ pending = <<>>
    /\ \E m \in {IF platform = "x11" THEN update(Cur) ELSE Cur} :
           /\ Becomes(m)
           /\ last' = [last EXCEPT !.drops = @ \cup m.drops]
    /\ pc' = "update"
    /\ UNCHANGED <<pending, TickFrame>>

\* self.window_manager.update() in Engine::process_events
EngineUpdate ==
    /\ pc = "update"
    /\ \E m \in {update(Cur)} :
           /\ Becomes(m)
           /\ last' = [last EXCEPT !.drops = @ \cup m.drops]
    /\ pc' = "read"
    /\ UNCHANGED <<pending, TickFrame>>

\* self.exit_manager.take_exit_state(), the value Engine::process_events returns
EngineRead ==
    /\ pc = "read"
    /\ \E r \in {read_exit_state(Cur)} :
           /\ Becomes(r.m)
           /\ last' = [last EXCEPT !.ok = TRUE, !.exit = r.ret]
    /\ pc' = "idle"
    /\ UNCHANGED <<pending, TickFrame>>

NextPump ==
    \/ \E ok \in BOOLEAN :
           pc = "idle" /\ window_id_counter < MaxIds /\ CreateWindow(ok)
    \/ pc = "idle" /\ \E id \in IdArgs : GetWindow(id)
    \/ pc = "idle" /\ \E q \in Queues : PumpStart(q)
    \/ PumpStep
    \/ PumpReturn
    \/ EngineUpdate
    \/ EngineRead

SpecPump == Init /\ [][NextPump]_vars

(***************************************************************************)
(* The manager's calls followed statement by statement, with the borrow    *)
(* flags of the RefCells window_sets (WindowManager) and window_map        *)
(* (X11Platform).  A flag is 0 when nothing borrows the cell, n > 0 with n *)
(* shared borrows, -1 with a mutable one.  A temporary Ref / RefMut lives  *)
(* to the end of its statement, and the value a statement's expression     *)
(* leaves is dropped before the temporaries made ahead of it.  call.at     *)
(* names the statement about to run, by function and line.  A call to      *)
(* try_finish_closing_window is the application's or the reconciliation    *)
(* pass's: neither holds a borrow when it calls.                           *)
(***************************************************************************)
\* RefCell::borrow succeeds unless the cell is mutably borrowed
can_borrow(flag) == flag >= 0

\* RefCell::borrow_mut succeeds only on an unborrowed cell
can_borrow_mut(flag) == flag = 0

\* BorrowError / BorrowMutError: the call panics where it stands
BorrowPanic ==
    /\ call' = [call EXCEPT !.at = "already borrowed"]
    /\ UNCHANGED <<windows, active_windows, dying_windows, window_map, borrow,
                   window_id_counter, issued>>

\* what the statements of the manager never touch
CallFrame ==
    <<platform, outside, exit_state, panicked, last, exit_trace, pending, pc>>

\* the call returns to its caller; the X11 pump's `if let` then ends and
\* gives up its Ref on window_map
ReturnToCaller ==
    /\ call' = NoFrame
    /\ borrow' = IF call.caller = "pump"
                 THEN [borrow EXCEPT !.window_map = @ - 1]
                 ELSE borrow

\* create_window, line 164: the id is fetched, Platform::create_window is next
CallCreateWindow ==
    /\ call.at = "idle" /\ ~panicked
    /\ window_id_counter < MaxIds
    /\ \E f \in {fetch_add(window_id_counter)} :
           /\ window_id_counter' = f.counter
           /\ call' = [at |-> "create_window:166", id |-> f.id, caller |-> "app"]
    /\ UNCHANGED <<windows, active_windows, dying_windows, window_map, borrow,
                   issued, CallFrame>>

\* line 166: control is in Platform::create_window; the X11 one inserts into
\* window_map under borrow_mut (x11/mod.rs:153); on Err the ? returns
CreateWindow_166(ok) ==
    /\ call.at = "create_window:166"
    /\ IF ~ok
       THEN /\ call' = NoFrame
            /\ UNCHANGED <<windows, active_windows, dying_windows, window_map,
                           borrow, window_id_counter, issued>>
       ELSE IF platform = "x11" /\ ~can_borrow_mut(borrow.window_map)
            THEN BorrowPanic
            ELSE /\ window_map' = platform_create_window(Cur, call.id).window_map
                 /\ call' = [call EXCEPT !.at = "create_window:170"]
                 /\ UNCHANGED <<windows, active_windows, dying_windows, borrow,
                                window_id_counter, issued>>
    /\ UNCHANGED CallFrame

\* line 170: window_sets.borrow_mut().active_windows.insert(id)
CreateWindow_170 ==
    /\ call.at = "create_window:170"
    /\ IF ~can_borrow_mut(borrow.window_sets)
       THEN BorrowPanic
       ELSE /\ active_windows' = active_windows \cup {call.id}
            /\ call' = [call EXCEPT !.at = "create_window:171"]
            /\ UNCHANGED <<windows, dying_windows, window_map, borrow,
                           window_id_counter, issued>>
    /\ UNCHANGED CallFrame

\* line 171: window_sets.borrow_mut().windows.insert(id, window), then Ok
CreateWindow_171 ==
    /\ call.at = "create_window:171"
    /\ IF ~can_borrow_mut(borrow.window_sets)
       THEN BorrowPanic
       ELSE /\ windows' = windows \cup {call.id}
            /\ issued' = issued \cup {call.id}
            /\ call' = NoFrame
            /\ UNCHANGED <<active_windows, dying_windows, window_map, borrow,
                           window_id_counter>>
    /\ UNCHANGED CallFrame

\* the application calls begin_closing_window(id)
CallBeginClosingWindow(id) ==
    /\ call.at = "idle" /\ ~panicked
    /\ call' = [at |-> "begin_closing_window:177", id |-> id, caller |-> "app"]
    /\ UNCHANGED <<windows, active_windows, dying_windows, window_map, borrow,
                   window_id_counter, issued, CallFrame>>

\* the X11 pump on a delete message for native window n (x11/mod.rs:173-175):
\* `if let Some(wid) = self.window_map.borrow().get(..)` keeps its Ref while
\* the body calls begin_closing_window
PumpDeleteMessage(n) ==
    /\ call.at = "idle" /\ ~panicked
    /\ platform = "x11"
    /\ map_contains(window_map, n)
    /\ IF ~can_borrow(borrow.window_map)
       THEN BorrowPanic
       ELSE /\ borrow' = [borrow EXCEPT !.window_map = @ + 1]
            /\ call' = [at |-> "begin_closing_window:177",
                        id |-> map_get(window_map, n), caller |-> "pump"]
            /\ UNCHANGED <<windows, active_windows, dying_windows, window_map,
                           window_id_counter, issued>>
    /\ UNCHANGED CallFrame

\* line 177: window_sets.borrow_mut().active_windows.remove(&id)
BeginClosingWindow_177 ==
    /\ call.at = "begin_closing_window:177"
    /\ IF ~can_borrow_mut(borrow.window_sets)
       THEN BorrowPanic
       ELSE /\ active_windows' = active_windows \ {call.id}
            /\ call' = [call EXCEPT !.at = "begin_closing_window:178"]
            /\ UNCHANGED <<windows, dying_windows, window_map, borrow,
                           window_id_counter, issued>>
    /\ UNCHANGED CallFrame

\* line 178: window_sets.borrow_mut().dying_windows.insert(id), then return
BeginClosingWindow_178 ==
    /\ call.at = "begin_closing_window:178"
    /\ IF ~can_borrow_mut(borrow.window_sets)
       THEN BorrowPanic
       ELSE /\ dying_windows' = dying_windows \cup {call.id}
            /\ ReturnToCaller
            /\ UNCHANGED <<windows, active_windows, window_map,
                           window_id_counter, issued>>
    /\ UNCHANGED CallFrame

\* try_finish_closing_window(id) is called
CallTryFinishClosingWindow(id) ==
    /\ call.at = "idle" /\ ~panicked
    /\ call' = [at |-> "try_finish_closing_window:182", id |-> id, caller |-> "app"]
    /\ UNCHANGED <<windows, active_windows, dying_windows, window_map, borrow,
                   window_id_counter, issued, CallFrame>>

\* line 182: if window_sets.borrow().dying_windows.contains(&id); the Ref of
\* the condition is gone before the block; not dying: line 199
TryFinish_182 ==
    /\ call.at = "try_finish_closing_window:182"
    /\ IF ~can_borrow(borrow.window_sets)
       THEN BorrowPanic
       ELSE /\ call' = IF call.id \in dying_windows
                       THEN [call EXCEPT !.at = "try_finish_closing_window:183"]
                       ELSE NoFrame
            /\ UNCHANGED <<windows, active_windows, dying_windows, window_map,
                           borrow, window_id_counter, issued>>
    /\ UNCHANGED CallFrame

\* lines 183-193: if let Some(window) = window_sets.borrow().windows.get(&id);
\* both branches only read, and the Ref ends with the if let
TryFinish_183 ==
    /\ call.at = "try_finish_closing_window:183"
    /\ IF ~can_borrow(borrow.window_sets)
       THEN BorrowPanic
       ELSE /\ call' = IF call.id \in windows /\ ~has_outside_references(Cur, call.id)
                       THEN [call EXCEPT !.at = "try_finish_closing_window:195"]
                       ELSE NoFrame
            /\ UNCHANGED <<windows, active_windows, dying_windows, window_map,
                           borrow, window_id_counter, issued>>
    /\ UNCHANGED CallFrame

\* line 195: window_sets.borrow_mut().dying_windows.remove(&id)
TryFinish_195 ==
    /\ call.at = "try_finish_closing_window:195"
    /\ IF ~can_borrow_mut(borrow.window_sets)
       THEN BorrowPanic
       ELSE /\ dying_windows' = dying_windows \ {call.id}
            /\ call' = [call EXCEPT !.at = "try_finish_closing_window:196"]
            /\ UNCHANGED <<windows, active_windows, window_map, borrow,
                           window_id_counter, issued>>
    /\ UNCHANGED CallFrame

\* line 196: window_sets.borrow_mut().windows.remove(&id); the statement
\* leaves the removed Arc, which is dropped before the RefMut made ahead of it
TryFinish_196 ==
    /\ call.at = "try_finish_closing_window:196"
    /\ IF ~can_borrow_mut(borrow.window_sets)
       THEN BorrowPanic
       ELSE /\ borrow' = [borrow EXCEPT !.window_sets = -1]
            /\ windows' = windows \ {call.id}
            /\ call' = [call EXCEPT !.at = "drop"]
            /\ UNCHANGED <<active_windows, dying_windows, window_map,
                           window_id_counter, issued>>
    /\ UNCHANGED CallFrame

\* the removed Arc is dropped; if it was the last one the window's destructor
\* runs (X11Window::drop -> notify_window_destroy -> window_map.borrow_mut());
\* then the statement ends, the RefMut on window_sets with it, and line 199
\* returns true
WindowDrop ==
    /\ call.at = "drop"
    /\ IF platform = "x11" /\ outside[call.id] = 0
          /\ ~can_borrow_mut(borrow.window_map)
       THEN BorrowPanic
       ELSE /\ window_map' = after_entry_removed(Cur, call.id).window_map
            /\ borrow' = [borrow EXCEPT !.window_sets = 0]
            /\ call' = NoFrame
            /\ UNCHANGED <<windows, active_windows, dying_windows,
                           window_id_counter, issued>>
    /\ UNCHANGED CallFrame

NextBorrow ==
    \/ CallCreateWindow
    \/ \E ok \in BOOLEAN : CreateWindow_166(ok)
    \/ CreateWindow_170
    \/ CreateWindow_171
    \/ \E id \in IdArgs : CallBeginClosingWindow(id)
    \/ \E n \in NativeHandles : PumpDeleteMessage(n)
    \/ BeginClosingWindow_177
    \/ BeginClosingWindow_178
    \/ \E id \in IdArgs : CallTryFinishClosingWindow(id)
    \/ TryFinish_182
    \/ TryFinish_183
    \/ TryFinish_195
    \/ TryFinish_196
    \/ WindowDrop
    \/ call.at = "idle" /\ \E id \in IdArgs : GetWindow(id)
    \/ call.at = "idle" /\ \E id \in IdArgs : ReleaseRef(id)

SpecBorrow == Init /\ [][NextBorrow]_vars

(***************************************************************************)
(* The id counter run past its range: create_window called any number of   *)
(* times, windows closed and torn down in between.  The counter has        *)
(* CounterBits bits here, so that it wraps after 2 ^ CounterBits calls as  *)
(* the 32-bit one does after 2 ^ 32.  The windows of one id are not told   *)
(* apart.                                                                  *)
(***************************************************************************)
NextCounter ==
    \/ \E ok \in BOOLEAN : CreateWindow(ok)
    \/ \E id \in IdArgs : BeginClosingWindow(id)
    \/ \E id \in IdArgs : TryFinishClosingWindow(id)

SpecCounter == Init /\ [][NextCounter]_vars

(***************************************************************************)
(* Properties.                                                             *)
(***************************************************************************)
Registry == <<windows, active_windows, dying_windows>>

\* the registry after the step, as a record the operations apply to
Post ==
    [Cur EXCEPT !.windows = windows', !.active_windows = active_windows',
                !.dying_windows = dying_windows', !.window_map = window_map',
                !.exit_state = exit_state', !.panicked = panicked']

\* C1: the manager removes a window entry only at a point where the id is
\* dying, is not active, and the manager holds the only strong reference.
C1_DropOnlyDyingUnreferenced ==
    \A d \in last.drops : d.dying /\ ~d.active /\ d.strong = 1

\* C2: try_finish_closing_window(id) on a dying id whose window has an
\* outside strong reference returns false and leaves active, dying, the
\* windows map (and the references) as they were, so it can be repeated.
C2_RefusesWhileReferenced ==
    [][\A id \in IdArgs :
          (/\ TryFinishClosingWindow(id)
           /\ id \in dying_windows
           /\ id \in windows
           /\ outside[id] > 0)
          => (/\ last'.ok = FALSE
              /\ UNCHANGED Registry
              /\ UNCHANGED <<outside, window_map>>
              /\ try_finish_closing_window(Post, id).ret = FALSE)]_vars

\* a refused teardown attempt has happened and the window is still dying
C2_Witness ==
    /\ last.op = "try_finish_closing_window"
    /\ last.pre.dying
    /\ ~last.ok
    /\ last.id \in dying_windows
    /\ last.id \in windows
    /\ outside[last.id] > 0

\* C3: try_finish_closing_window(id) on a dying id whose window has no
\* outside strong reference returns true, and afterwards id is in none of
\* active, dying and the windows map, so is_window_alive(id) is false.
C3_FinishRemovesEverywhere ==
    [][\A id \in IdArgs :
          (/\ TryFinishClosingWindow(id)
           /\ id \in dying_windows
           /\ id \in windows
           /\ outside[id] = 0)
          => (/\ last'.ok = TRUE
              /\ id \notin active_windows'
              /\ id \notin dying_windows'
              /\ id \notin windows'
              /\ ~is_window_alive(Post, id))]_vars

\* C4: after take_exit_state the stored state is Running, and a take that
\* directly follows a take returns Running.
C4_TakeResets ==
    /\ (Len(exit_trace) > 0 /\ exit_trace[Len(exit_trace)].op = "take_exit_state")
           => exit_state = "Running"
    /\ \A i \in 1 .. (Len(exit_trace) - 1) :
           (exit_trace[i].op = "take_exit_state"
                /\ exit_trace[i + 1].op = "take_exit_state")
               => exit_trace[i + 1].val = "Running"

\* C5: take_exit_state returns ExitErrorGeneric for a stored ExitError(e),
\* and the stored value itself for Running, ExitSuccess and ExitErrorGeneric.
C5_TakeCollapsesError ==
    [][ExitTake =>
          exit_trace'[Len(exit_trace')].val =
              (IF exit_state \in ExitErrors THEN "ExitErrorGeneric" ELSE exit_state)]_vars

\* WM_QUIT is among the messages the tick's pump drains
HasQuit(q) == \E i \in 1 .. Len(q) : q[i].type = "WM_QUIT"

\* C6: a tick returns ExitSuccess when its pump saw a quit message, and
\* Running when its pump wrote nothing (the quit is reported by one tick).
C6_QuitReportedOnce ==
    [][\A q \in Batches :
          (Tick(q) /\ ~panicked')
          => last'.exit = (IF HasQuit(q) THEN "ExitSuccess" ELSE "Running")]_vars

\* C7: the active set and the dying set are disjoint.
C7_ActiveDyingDisjoint == active_windows \cap dying_windows = {}

\* C8: every key of the windows map is in exactly one of active and dying.
C8_EntryInExactlyOneSet ==
    \A id \in windows : (id \in active_windows) # (id \in dying_windows)

\* C9: begin_closing_window(id) for an id that is not active changes none of
\* active, dying and the windows map, and is_window_alive(id) keeps its value.
C9_BeginClosingNoOpWhenNotActive ==
    [][\A id \in IdArgs :
          (BeginClosingWindow(id) /\ id \notin active_windows)
          => (/\ UNCHANGED Registry
              /\ is_window_alive(Post, id) = is_window_alive(Cur, id))]_vars

\* C10: begin_closing_window(id) for an active id leaves it not active,
\* dying, alive, with the windows map as it was; and applying it again to
\* the resulting registry changes nothing.
C10_BeginClosingMovesToDying ==
    [][\A id \in IdArgs :
          (BeginClosingWindow(id) /\ id \in active_windows)
          => (/\ id \notin active_windows'
              /\ id \in dying_windows'
              /\ is_window_alive(Post, id)
              /\ windows' = windows
              /\ begin_closing_window(Post, id) = Post)]_vars

\* an active window with its entry has just been moved to dying
C10_Witness ==
    /\ last.op = "begin_closing_window"
    /\ last.pre.active
    /\ last.id \in dying_windows
    /\ last.id \notin active_windows
    /\ last.id \in windows

\* C11: get_window(id) returns a strong reference exactly when id is active
\* at the time of the call, and returns nothing for a dying id.
C11_GetWindowIffActive ==
    [][\A id \in IdArgs :
          GetWindow(id)
          => (/\ last'.ok = (id \in active_windows)
              /\ (id \in dying_windows => ~last'.ok))]_vars

C13_AliveIsActiveOrDying ==
    [][/\ \A id \in IdArgs, m \in {Cur, Post} :
             is_window_alive(m, id)
                 = (is_window_active(m, id) \/ is_window_dying(m, id))
       /\ \A id \in IdArgs :
             IsWindowAlive(id)
             => (/\ UNCHANGED <<Registry, window_map, outside>>
                 /\ last'.ok = (id \in active_windows
                                   \/ id \in dying_windows))]_vars

\* is_window_alive has just answered true for an id that is dying and not
\* active
C13_Witness ==
    /\ last.op = "is_window_alive"
    /\ last.ok
    /\ last.id \in dying_windows
    /\ last.id \notin active_windows

\* C14: try_finish_closing_window(id) for an id that is not dying, active or
\* never created, returns true and leaves the registry and the window as
\* they were.
C14_TryFinishNotDyingIsNoOp ==
    [][\A id \in IdArgs :
          (TryFinishClosingWindow(id) /\ id \notin dying_windows)
          => (/\ last'.ok
              /\ UNCHANGED <<Registry, window_map, outside>>)]_vars

\* the call has just returned true for an active window that is not dying and
\* that the manager alone references, and the window is still registered
C14_Witness ==
    /\ last.op = "try_finish_closing_window"
    /\ last.ok
    /\ last.pre.active
    /\ ~last.pre.dying
    /\ last.id \in active_windows
    /\ last.id \in windows
    /\ outside[last.id] = 0

\* C15: a take_exit_state that follows a set with no other set and no take
\* in between returns the value that set wrote (with or without its error
\* payload), whatever was written before it.
C15_LastWriteWins ==
    \A i \in 1 .. Len(exit_trace), j \in 1 .. Len(exit_trace) :
        (/\ i < j
         /\ exit_trace[i].op = "set"
         /\ exit_trace[j].op = "take_exit_state"
         /\ \A k \in (i + 1) .. (j - 1) : exit_trace[k].op = "should_exit")
        => exit_trace[j].val \in {exit_trace[i].val, collapse(exit_trace[i].val)}

\* ExitError(e) was written, then ExitSuccess, and the take returned ExitSuccess
C15_Witness ==
    /\ Len(exit_trace) >= 3
    /\ \E j \in 3 .. Len(exit_trace) :
           /\ exit_trace[j - 2].op = "set"
           /\ exit_trace[j - 2].val \in ExitErrors
           /\ exit_trace[j - 1] = [op |-> "set", val |-> "ExitSuccess"]
           /\ exit_trace[j] = [op |-> "take_exit_state", val |-> "ExitSuccess"]

\* C16: should_exit returns true exactly when the stored state is not
\* Running, false in the initial state; it leaves the stored state as it was,
\* so a take_exit_state after it returns what it would have returned before.
C16_ShouldExitPeeks ==
    [][ExitPeek =>
          (/\ exit_trace'[Len(exit_trace')].val
                 = (IF exit_state = "Running" THEN "false" ELSE "true")
           /\ (exit_trace = <<>> => exit_trace'[1].val = "false")
           /\ exit_state' = exit_state
           /\ take_exit_state(exit_state') = take_exit_state(exit_state))]_vars

\* should_exit answered true for a stored ExitSuccess and the take after it
\* returned ExitSuccess
C16_Witness ==
    /\ Len(exit_trace) >= 3
    /\ \E j \in 3 .. Len(exit_trace) :
           /\ exit_trace[j - 2] = [op |-> "set", val |-> "ExitSuccess"]
           /\ exit_trace[j - 1] = [op |-> "should_exit", val |-> "true"]
           /\ exit_trace[j] = [op |-> "take_exit_state", val |-> "ExitSuccess"]

\* C17: after a successful create_window returning id, id is active, is a key
\* of the windows map, is not dying, and the manager holds the only strong
\* reference to the window.
C17_CreatedIsActiveOnly ==
    [][(CreateWindow(TRUE) /\ last'.ok)
          => (/\ last'.id \in active_windows'
              /\ last'.id \in windows'
              /\ last'.id \notin dying_windows'
              /\ StrongCount(Post, last'.id) = 1)]_vars

ClosedByPump(q, id) ==
    /\ platform = "x11"
    /\ \E i \in 1 .. Len(q) :
           /\ is_delete_message(q[i])
           /\ map_contains(window_map, q[i].window)
           /\ map_get(window_map, q[i].window) = id

\* C19: a tick pumps, then reconciles, then reads the exit state: whatever
\* is queued when a tick starts, a window its pump moves to dying and that
\* nothing outside references is torn down when the tick returns, and an exit
\* signal its pump writes is the value the tick returns.
C19_TickPumpsReconcilesReads ==
    ~panicked
    => \A q \in Batches :
           \E r \in {process_events(Cur, q)} :
               ~r.m.panicked
               => (/\ \A id \in IdArgs :
                         (ClosedByPump(q, id) /\ outside[id] = 0)
                         => (/\ id \notin r.m.windows
                             /\ id \notin r.m.dying_windows
                             /\ id \notin r.m.active_windows)
                   /\ HasQuit(q) => r.ret = "ExitSuccess")

\* a tick has just returned that tore down a window its own pump had moved to
\* dying
C19_Witness ==
    /\ last.op = "process_events"
    /\ last.ok
    /\ \E d \in last.drops : d.pumped /\ d.strong = 1 /\ d.id \notin windows

C21_NoForcedDestruction ==
    [][\A id \in IdArgs :
          (id \in dying_windows /\ id \in windows /\ outside[id] > 0)
          => (id \in dying_windows' /\ id \in windows')]_vars

\* a tick has just returned without removing anything, with a dying window
\* still registered and referenced outside
C21_Witness ==
    /\ last.op = "process_events"
    /\ last.ok
    /\ last.drops = {}
    /\ \E id \in dying_windows :
           id \in windows /\ id \notin active_windows /\ outside[id] > 0

\* C22: for an id with no window in the registry, never created or already
\* torn down, get_window returns nothing and is_window_active,
\* is_window_dying and is_window_alive return false.
C22_UnknownIdQueriesEmpty ==
    \A id \in IdArgs :
        id \notin windows
        => (/\ ~get_window(Cur, id)
            /\ ~is_window_active(Cur, id)
            /\ ~is_window_dying(Cur, id)
            /\ ~is_window_alive(Cur, id))

\* C23: once the manager's entry for a window is removed and nothing outside
\* references the window, its native window is released: no native window
\* is live for an id absent from the registry.
C23_NoNativeLeak ==
    \A id \in issued :
        (id \notin windows /\ outside[id] = 0 /\ ~panicked)
        => NativeOf(id) \notin LiveNativeWindows

\* C24: an id that is dying and not active does not become active, and an
\* id that is neither active nor dying, dead or never created, is neither
\* after a begin_closing_window or a try_finish_closing_window.
C24_LifecycleOneWay ==
    [][\A id \in IdArgs :
          /\ (id \in dying_windows /\ id \notin active_windows)
                 => id \notin active_windows'
          /\ (/\ id \notin active_windows
              /\ id \notin dying_windows
              /\ \E a \in IdArgs :
                     BeginClosingWindow(a) \/ TryFinishClosingWindow(a))
                 => (id \notin active_windows' /\ id \notin dying_windows')]_vars

\* every window has been asked to close and no outside reference is held
AllClosedAndReleased ==
    \A id \in IdArgs : id \notin active_windows /\ outside[id] = 0

\* C25: while ticks keep being invoked, once every window has been asked to
\* close and no outside reference is held, eventually is_window_alive is
\* false for every id (or the tick result has ended the loop), unless a
\* window is created or referenced again first; whatever ids the manager
\* was called with.
C25_CallerLoopTerminates ==
    AllClosedAndReleased
    ~> (\/ \A id \in IdArgs : ~is_window_alive(Cur, id)
        \/ ~AllClosedAndReleased
        \/ exit_state # "Running"
        \/ panicked)

\* C26: whatever is queued when a tick starts, when the tick returns every
\* id still in the dying set has at least one outside strong reference.
C26_TickLeavesOnlyReferencedDying ==
    ~panicked
    => \A q \in Batches :
           \E r \in {process_events(Cur, q)} :
               ~r.m.panicked
               => \A id \in r.m.dying_windows : outside[id] >= 1

\* C27: on X11 an iteration of the pump that handles a ClientMessage of type
\* WM_PROTOCOLS, format 32, first datum WM_DELETE_WINDOW, for a native window
\* the platform's window map knows, does what begin_closing_window does with
\* the id registered for that window: the id leaves active and is in dying.
\* An iteration on a delete message for a native window not in the map, or on
\* any other event, leaves the active and the dying set as they were.
C27_X11PumpDispatch ==
    [][(platform = "x11" /\ PumpStep)
          => LET e == Head(pending)
             IN  IF /\ e.type = "ClientMessage"
                    /\ e.message_type = "WM_PROTOCOLS" /\ e.format = 32
                    /\ e.data0 = "WM_DELETE_WINDOW"
                    /\ \E entry \in window_map : entry[1] = e.window
                 THEN \E entry \in window_map :
                          /\ entry[1] = e.window
                          /\ active_windows' = active_windows \ {entry[2]}
                          /\ dying_windows' = dying_windows \cup {entry[2]}
                          /\ windows' = windows
                 ELSE UNCHANGED <<active_windows, dying_windows, windows>>]_vars

\* the X11 pump has closed a window nobody else holds and has an event that
\* is no delete message still to handle
C27_Witness ==
    /\ platform = "x11" /\ pc = "pump"
    /\ pending # <<>> /\ ~is_delete_message(Head(pending))
    /\ \E id \in dying_windows :
           id \in windows /\ id \notin active_windows /\ outside[id] = 0

\* C28: an iteration of the Windows pump that dispatches WM_DESTROY for a
\* window this process created closes that window's id (the id leaves active
\* and is in dying) and does not abort: the pump goes on.
C28_DestroyBeginsClosing ==
    [][(/\ platform = "windows" /\ PumpStep
        /\ Head(pending).type = "WM_DESTROY"
        /\ Head(pending).window \in LiveNativeWindows)
          => /\ ~panicked'
             /\ \E id \in issued :
                    /\ NativeOf(id) = Head(pending).window
                    /\ id \notin active_windows' /\ id \in dying_windows']_vars

\* C29: the pump drains the whole batch.  An iteration that takes WM_QUIT
\* stores ExitSuccess and the loop goes on with the events behind it; events
\* leave the queue one at a time, each through an iteration that handles it;
\* the pump is left only with nothing pending; and the tick hands out no exit
\* state while the pump runs: the value it returns is read after the pump has
\* returned.
C29_PumpDrainsWholeBatch ==
    [][/\ (platform = "windows" /\ PumpStep /\ Head(pending).type = "WM_QUIT")
             => (/\ exit_state' = "ExitSuccess"
                 /\ pending' = Tail(pending)
                 /\ pc' = "pump" /\ ~panicked')
       /\ (pc = "pump" /\ pending' # pending)
             => (PumpStep /\ pending' = Tail(pending))
       /\ (pc = "pump" /\ pc' # "pump") => pending = <<>>
       /\ pc = "pump" => last'.exit = "-"
       /\ last'.exit # last.exit => (pc = "read" \/ pc = "idle")]_vars

\* the Windows pump has taken a quit message and still has an event to handle
C29_Witness ==
    /\ platform = "windows" /\ pc = "pump" /\ ~panicked
    /\ exit_state = "ExitSuccess"
    /\ pending # <<>> /\ Len(pending) < MaxQueue

\* C30: process_events terminates without waiting.  While the pump runs on
\* what was pending at the call, it is never stuck: with an event pending the
\* next iteration removes it, and with none pending the pump returns.
C30_PumpTerminates ==
    pc = "pump" => IF pending = <<>> THEN ENABLED PumpReturn ELSE ENABLED PumpStep

\* C31: the registry is safe against re-entrancy.  When control is about to
\* leave the manager (the call to Platform::create_window, or the destructor
\* of a window, which on X11 calls notify_window_destroy) window_sets is not
\* borrowed; and no statement of any call chain asks for a borrow of
\* window_sets or window_map that the cell's flag refuses.
C31_NoBorrowHeldAcrossPlatform ==
    /\ call.at = "create_window:166" => borrow.window_sets = 0
    /\ (call.at = "drop" /\ platform = "x11" /\ outside[call.id] = 0)
          => borrow.window_sets = 0
    /\ call.at # "already borrowed"

\* C32: ids follow creation order and are never reused: the id a successful
\* create_window returns is greater than every id create_window returned
\* before, however many calls were made, more than the counter can count
\* included.
C32_IdsStrictlyIncreasing ==
    [][\A ok \in BOOLEAN :
          (CreateWindow(ok) /\ last'.ok) => \A id \in issued : id < last'.id]_vars

\* C33: every id in the active set or the dying set has an entry in the
\* windows map: the window of a dying id is resident until
\* try_finish_closing_window takes the id out of dying.
C33_RegisteredIdsAreResident ==
    \A id \in IdArgs :
        (id \in active_windows \/ id \in dying_windows) => id \in windows

\* C34: begin_closing_window(a) and try_finish_closing_window(a) leave every
\* other id b as it was: b's membership in active, in dying and in the
\* windows map, and what get_window(b) returns, are the same after the call.
C34_OtherIdsUntouched ==
    [][\A a \in IdArgs :
          (BeginClosingWindow(a) \/ TryFinishClosingWindow(a))
          => \A b \in IdArgs \ {a} :
                 /\ (b \in active_windows') = (b \in active_windows)
                 /\ (b \in dying_windows') = (b \in dying_windows)
                 /\ (b \in windows') = (b \in windows)
                 /\ get_window(Post, b) = get_window(Cur, b)]_vars

\* try_finish_closing_window has torn one window down while another one,
\* also dying and held by nobody else, is still there
C34_Witness ==
    /\ last.op = "try_finish_closing_window" /\ last.ok
    /\ last.drops # {}
    /\ last.id \notin windows
    /\ \E b \in dying_windows : b # last.id /\ b \in windows /\ outside[b] = 0

\* C35: whenever try_finish_closing_window(id) returns true, id is not in
\* the dying set after the call, also when id was dying without an entry in
\* the windows map.
C35_TrueMeansNotDying ==
    [][\A id \in IdArgs :
          (TryFinishClosingWindow(id) /\ last'.ok) => id \notin dying_windows']_vars

C37_WindowMapMatchesObjects ==
    platform = "x11"
    => /\ {entry[2] : entry \in window_map}
              = {id \in IdArgs : id \in windows \/ outside[id] > 0}
       /\ \A entry \in window_map : entry[1] = NativeOf(entry[2])
       /\ \A id \in issued :
              (id \notin windows /\ outside[id] = 0)
              => x11_handle_event(Cur, DeleteMessage(NativeOf(id))) = Cur

\* on X11 one window has been torn down and is gone from the window map
\* while another, dying and still referenced, is in it
C37_Witness ==
    /\ platform = "x11"
    /\ \E a \in issued, b \in issued :
           /\ a \notin windows /\ outside[a] = 0
           /\ ~map_contains(window_map, NativeOf(a))
           /\ b \in windows /\ b \in dying_windows /\ outside[b] > 0
           /\ map_contains(window_map, NativeOf(b))

\* C38: once a window is dying the number of strong references held outside
\* the manager never goes up: neither get_window nor an upgrade of the weak
\* handle from create_window gives the application a new one.
C38_NoNewReferenceToDying ==
    [][\A id \in IdArgs :
          (id \in dying_windows /\ id \in windows)
          => outside'[id] <= outside[id]]_vars
====
